---------------------------- MODULE Spec2Model ----------------------------
(***************************************************************************)
(* Column-bounded Unicode text scanner (src/src/unicode/scan.cpp).         *)
(*                                                                         *)
(* Pointers are byte offsets into the caller's buffer `text` (offset 0 is  *)
(* the first byte).  A span is a pair lo, hi of offsets: [lo, hi).         *)
(* The three collaborators that scan.cpp only includes (the UTF-8 decoder, *)
(* the grapheme boundary predicate, the display width) are modelled from   *)
(* their interface in spec.md section 6.                                   *)
(***************************************************************************)
EXTENDS Integers, Sequences, FiniteSets, TLC

VARIABLES text,   \* the caller's buffer: the logical byte stream
          state,  \* scan_state: utf8 decode state and lastCodepointHint
          calls   \* the calls made so far, oldest first (arguments and results)

vars == <<text, state, calls>>

---------------------------------------------------------------------------
\* Bounds of the model.

\* Longest stream, in units (a unit is one well-formed codepoint or one byte).
MaxUnits == 3
\* Largest column budget a caller passes.
MaxColumns == 3
\* Longest span handed to the ASCII fast path in AsciiSpec.
MaxAsciiLen == 34

\* sizeof(__m128i)
BatchWidth == 16

Min(a, b) == IF a <= b THEN a ELSE b
Max(a, b) == IF a >= b THEN a ELSE b

---------------------------------------------------------------------------
\* Memory.  m = [buf, lo, hi, contig, g]: the span [lo, hi) of buf is what the
\* caller passed.  A read outside the span is outside what the callee may
\* touch: with contig the span is a view into buf and the read yields buf's
\* byte there, otherwise (and outside buf) it yields some other byte g.
Mem(m, i) ==
    IF (m.lo <= i /\ i < m.hi) \/ (m.contig /\ 0 <= i /\ i < Len(m.buf))
    THEN m.buf[i + 1]
    ELSE m.g

---------------------------------------------------------------------------
\* Byte predicates.

is_control(ch) == ch < 32

is_complex(ch) == ch >= 128

is_ascii(ch) == ~is_control(ch) /\ ~is_complex(ch)

---------------------------------------------------------------------------
\* Collaborators (interface of spec.md section 6).

\* utf8_decoder_state with nothing pending.
CleanUtf8 == [character |-> 0, expectedLength |-> 0, currentLength |-> 0]

\* scan_state as constructed.
CleanState == [utf8 |-> CleanUtf8, lastCodepointHint |-> 0]

\* decode_step: consumes exactly one byte; Incomplete while bytes are still
\* expected; Success(codepoint) or Invalid otherwise, both leaving nothing
\* pending.  A byte that cannot start a sequence, or a byte that is not a
\* continuation byte where one is expected, is malformed.
from_utf8(u, byte) ==
    IF u.expectedLength = 0
    THEN IF byte < 128
         THEN [kind |-> "Success", value |-> byte, st |-> CleanUtf8]
         ELSE IF byte \div 32 = 6
         THEN [kind |-> "Incomplete", value |-> 0,
               st |-> [character |-> byte % 32, expectedLength |-> 2, currentLength |-> 1]]
         ELSE IF byte \div 16 = 14
         THEN [kind |-> "Incomplete", value |-> 0,
               st |-> [character |-> byte % 16, expectedLength |-> 3, currentLength |-> 1]]
         ELSE IF byte \div 8 = 30
         THEN [kind |-> "Incomplete", value |-> 0,
               st |-> [character |-> byte % 8, expectedLength |-> 4, currentLength |-> 1]]
         ELSE [kind |-> "Invalid", value |-> 0, st |-> CleanUtf8]
    ELSE IF byte \div 64 # 2
         THEN [kind |-> "Invalid", value |-> 0, st |-> CleanUtf8]
         ELSE LET ch == (u.character * 64) + (byte % 64)
                  n  == u.currentLength + 1
              IN  IF n < u.expectedLength
                  THEN [kind |-> "Incomplete", value |-> 0,
                        st |-> [character |-> ch, expectedLength |-> u.expectedLength,
                                currentLength |-> n]]
                  ELSE [kind |-> "Success", value |-> ch, st |-> CleanUtf8]

\* Grapheme_Cluster_Break = Extend or ZWJ: combining diacritical marks, the
\* variation selectors, ZERO WIDTH JOINER.
IsExtend(cp) ==
    \/ (768 <= cp /\ cp <= 879)
    \/ (65024 <= cp /\ cp <= 65039)
    \/ cp = 8205

\* Grapheme_Cluster_Break = Control (none, written 0, is U+0000).
IsControlCodepoint(cp) == cp < 32 \/ (127 <= cp /\ cp <= 159)

\* Extended_Pictographic: U+2764 HEAVY BLACK HEART and the pictograph blocks
\* U+1F300..U+1FAFF.
IsExtendedPictographic(cp) == cp = 10084 \/ (127744 <= cp /\ cp <= 129791)

\* is_boundary(prev or none, next): none is always a boundary; no boundary
\* before Extend or ZWJ (GB9) unless a control precedes it (GB4); no boundary
\* between ZWJ and a pictograph (GB11, as far as two codepoints tell).
breakable(prev, next) ==
    IF prev = 0 \/ IsControlCodepoint(prev) \/ IsControlCodepoint(next)
    THEN TRUE
    ELSE ~(IsExtend(next) \/ (prev = 8205 /\ IsExtendedPictographic(next)))

\* display_width: 0 for combining marks, selectors and controls, 2 for East
\* Asian Wide (CJK and Hangul blocks, the pictograph blocks), 1 otherwise.
width(cp) ==
    IF IsExtend(cp) \/ IsControlCodepoint(cp) THEN 0
    ELSE IF \/ (4352 <= cp /\ cp <= 4447)
            \/ (11904 <= cp /\ cp <= 42191)
            \/ (44032 <= cp /\ cp <= 55203)
            \/ (63744 <= cp /\ cp <= 64255)
            \/ (65280 <= cp /\ cp <= 65376)
            \/ (127744 <= cp /\ cp <= 129791)
         THEN 2
    ELSE 1

VS16 == 65039

---------------------------------------------------------------------------
\* detail::scan_for_text_ascii

\* The byte as the signed char _mm_cmplt_epi8 compares.
SignedByte(b) == IF b >= 128 THEN b - 256 ELSE b

\* _mm_movemask_epi8(isControl | isComplex) over the 16 bytes at input, as
\* the set of its set bits.
BatchMask(m, input) ==
    {k \in 0..(BatchWidth - 1) :
        LET b == Mem(m, input + k)
        IN  SignedByte(b) < 32 \/ b >= 128}

\* Mutant: the index of the highest set bit instead of the lowest.
countLeadingBit(mask) == CHOOSE k \in mask : \A j \in mask : k >= j

\* __builtin_ctz of a non-zero mask.
countTrailingZeroBits(mask) == CHOOSE k \in mask : \A j \in mask : k <= j

\* The batched loop (lines 85-99): the offset it leaves input at.
RECURSIVE BatchLoop(_, _, _)
BatchLoop(m, input, end) ==
    IF input < end - BatchWidth
    THEN LET check == BatchMask(m, input)
         IN  IF check # {}
             THEN input + countTrailingZeroBits(check)
             ELSE BatchLoop(m, input + BatchWidth, end)
    ELSE input

\* The scalar loop (lines 102-103).
RECURSIVE ScalarLoop(_, _, _)
ScalarLoop(m, input, end) ==
    IF input # end /\ is_ascii(Mem(m, input))
    THEN ScalarLoop(m, input + 1, end)
    ELSE input

\* The build without SSE2: the scalar loop alone.
scan_for_text_ascii_scalar(m, lo, size, maxColumnCount) ==
    ScalarLoop(m, lo, lo + Min(size, maxColumnCount)) - lo

scan_for_text_ascii(m, lo, size, maxColumnCount) ==
    LET end == lo + Min(size, maxColumnCount)
    IN  ScalarLoop(m, BatchLoop(m, lo, end), end) - lo

---------------------------------------------------------------------------
\* detail::scan_for_text_nonascii
\*
\* L holds the locals of one call: count, input, clusterStart,
\* lastCodepointStart, byteCount, currentClusterWidth, resultEnd, the scan
\* state st, and brk (the loop was left by break).  L.input and L.byteCount
\* are already advanced past the byte just decoded (lines 136-137).  For the
\* record, L.log lists the decoder outcomes other than Incomplete, oldest
\* first, each with the locals before and after its branch ran.

\* Mutant: the fit test rejects a cluster that fills the budget exactly.
OnNewClusterOffByOne(L, nextWidth, maxColumnCount) ==
    LET count == L.count + L.currentClusterWidth
    IN  IF count + nextWidth >= maxColumnCount
        THEN [L EXCEPT !.count = count,
                       !.currentClusterWidth = 0,
                       !.input = L.input - L.byteCount,
                       !.brk = TRUE]
        ELSE [L EXCEPT !.count = count,
                       !.currentClusterWidth = nextWidth,
                       !.clusterStart = L.lastCodepointStart,
                       !.lastCodepointStart = L.input - L.byteCount,
                       !.byteCount = 0,
                       !.resultEnd = L.input]

\* Lines 149-167: the codepoint starts a new grapheme cluster.
OnNewCluster(L, nextWidth, maxColumnCount) ==
    LET count == L.count + L.currentClusterWidth
    IN  IF count + nextWidth > maxColumnCount
        THEN [L EXCEPT !.count = count,
                       !.currentClusterWidth = 0,
                       !.input = L.input - L.byteCount,
                       !.brk = TRUE]
        ELSE [L EXCEPT !.count = count,
                       !.currentClusterWidth = nextWidth,
                       !.clusterStart = L.lastCodepointStart,
                       !.lastCodepointStart = L.input - L.byteCount,
                       !.byteCount = 0,
                       !.resultEnd = L.input]

\* Lines 169-186: the codepoint continues the current grapheme cluster.
OnContinuation(L, nextCodepoint, maxColumnCount) ==
    IF nextCodepoint = VS16
    THEN IF L.count + 2 > maxColumnCount
         THEN [L EXCEPT !.resultEnd = L.input,
                        !.currentClusterWidth = 0,
                        !.input = L.clusterStart,
                        !.brk = TRUE]
         ELSE [L EXCEPT !.resultEnd = L.input,
                        !.currentClusterWidth = 2,
                        !.lastCodepointStart = L.input - L.byteCount]
    ELSE [L EXCEPT !.resultEnd = L.input,
                   !.lastCodepointStart = L.input - L.byteCount]

\* Lines 143-187: a successfully decoded codepoint.
OnSuccess(L, nextCodepoint, maxColumnCount) ==
    LET prevCodepoint == L.st.lastCodepointHint
        nextWidth     == Max(L.currentClusterWidth, width(nextCodepoint))
        L1            == [L EXCEPT !.st.lastCodepointHint = nextCodepoint]
    IN  IF breakable(prevCodepoint, nextCodepoint)
        THEN OnNewCluster(L1, nextWidth, maxColumnCount)
        ELSE OnContinuation(L1, nextCodepoint, maxColumnCount)

\* Mutant: the Invalid branch leaves the last-codepoint hint as it was.
OnInvalidKeepHint(L) ==
    [L EXCEPT !.count = L.count + 1,
              !.currentClusterWidth = 0,
              !.byteCount = 0]

\* Lines 188-195: the decoder reported Invalid.
OnInvalid(L) ==
    [L EXCEPT !.count = L.count + 1,
              !.currentClusterWidth = 0,
              !.st.lastCodepointHint = 0,
              !.byteCount = 0]

\* The record of one decoder outcome: result is what from_utf8 returned for
\* the byte before offset L1.input, len the bytes of its sequence (those fed
\* by an earlier call included), L1 the locals before the branch and L2 after.
LogEntry(result, len, L1, L2) ==
    [kind |-> result.kind, cp |-> result.value, len |-> len, at |-> L1.input,
     prev |-> L1.st.lastCodepointHint,
     byteCount |-> L1.byteCount, clusterStart |-> L1.clusterStart,
     countBefore |-> L1.count, widthBefore |-> L1.currentClusterWidth,
     countAfter |-> L2.count, widthAfter |-> L2.currentClusterWidth,
     hintAfter |-> L2.st.lastCodepointHint, byteCountAfter |-> L2.byteCount,
     brk |-> L2.brk, next |-> L2.input, end |-> L2.resultEnd]

\* Lines 136-195: one iteration of the loop.
NonAsciiStep(L, m, maxColumnCount) ==
    LET result == from_utf8(L.st.utf8, Mem(m, L.input))
        L1     == [L EXCEPT !.st.utf8 = result.st,
                            !.input = L.input + 1,
                            !.byteCount = L.byteCount + 1]
        L2     == IF result.kind = "Success"
                  THEN OnSuccess(L1, result.value, maxColumnCount)
                  ELSE OnInvalid(L1)
    IN  IF result.kind = "Incomplete" THEN L1
        ELSE [L2 EXCEPT !.log = Append(L.log, LogEntry(result, L.st.utf8.currentLength + 1,
                                                       L1, L2))]

\* Mutant: the loop does not stop at a byte without the high bit.
NonAsciiContinueAnyByte(L, m, end, maxColumnCount) ==
    /\ ~L.brk
    /\ L.input # end
    /\ L.count <= maxColumnCount

\* Line 134: the loop condition.
NonAsciiContinue(L, m, end, maxColumnCount) ==
    /\ ~L.brk
    /\ L.input # end
    /\ L.count <= maxColumnCount
    /\ is_complex(Mem(m, L.input))

RECURSIVE NonAsciiLoop(_, _, _, _)
NonAsciiLoop(L, m, end, maxColumnCount) ==
    IF NonAsciiContinue(L, m, end, maxColumnCount)
    THEN NonAsciiLoop(NonAsciiStep(L, m, maxColumnCount), m, end, maxColumnCount)
    ELSE L

\* Lines 114-207.  The result carries the scan state the call leaves.
scan_for_text_nonascii(st, m, start, end, maxColumnCount) ==
    LET resultStart == IF st.utf8.expectedLength # 0
                       THEN start - st.utf8.currentLength
                       ELSE start
        L0 == [count |-> 0, input |-> start, clusterStart |-> start,
               lastCodepointStart |-> start, byteCount |-> 0,
               currentClusterWidth |-> 0, resultEnd |-> resultStart,
               st |-> st, brk |-> FALSE, log |-> <<>>]
        L  == NonAsciiLoop(L0, m, end, maxColumnCount)
    IN  [count |-> L.count + L.currentClusterWidth,
         next  |-> L.input,
         start |-> resultStart,
         end   |-> L.resultEnd,
         st    |-> L.st,
         log   |-> L.log]

---------------------------------------------------------------------------
\* scan_for_text
\*
\* D holds the locals of one call: the merged result (count, next, start,
\* end), the working span text as its first offset tlo (text.data() +
\* text.size() stays m.hi under remove_prefix), nextState, the scan state st,
\* and for the record: subs, the sub-scanner calls made, oldest first;
\* frontAt, the offset line 236 classified; exit, how the call returned.

\* text.size() of the working span [tlo, hi): tlo never passes hi.
TextSize(tlo, hi) == hi - tlo

SubRecord(kind, tlo, max, r) ==
    [kind |-> kind, at |-> tlo, max |-> max, count |-> r.count,
     start |-> r.start, end |-> r.end, next |-> r.next, log |-> r.log]

\* Mutant: remove_prefix leaves the last byte counted in the working span.
TrivialStepShortPrefix(D, m, maxColumnCount) ==
    LET budget == maxColumnCount - D.count
        count  == scan_for_text_ascii(m, D.tlo, TextSize(D.tlo, m.hi), budget)
        sub    == [kind |-> "ascii", at |-> D.tlo, max |-> budget, count |-> count,
                   start |-> D.tlo, end |-> D.tlo + count, next |-> D.tlo + count]
    IN  IF count = 0
        THEN [D EXCEPT !.exit = "early", !.subs = Append(D.subs, sub)]
        ELSE [D EXCEPT !.count = D.count + count,
                       !.next = D.next + count,
                       !.end = D.end + count,
                       !.nextState = "Complex",
                       !.tlo = D.tlo + count - 1,
                       !.subs = Append(D.subs, sub)]

\* Lines 241-251: case NextState::Trivial.  A zero count returns at once.
TrivialStep(D, m, maxColumnCount) ==
    LET budget == maxColumnCount - D.count
        count  == scan_for_text_ascii(m, D.tlo, TextSize(D.tlo, m.hi), budget)
        sub    == [kind |-> "ascii", at |-> D.tlo, max |-> budget, count |-> count,
                   start |-> D.tlo, end |-> D.tlo + count, next |-> D.tlo + count]
    IN  IF count = 0
        THEN [D EXCEPT !.exit = "early", !.subs = Append(D.subs, sub)]
        ELSE [D EXCEPT !.count = D.count + count,
                       !.next = D.next + count,
                       !.end = D.end + count,
                       !.nextState = "Complex",
                       !.tlo = D.tlo + count,
                       !.subs = Append(D.subs, sub)]

\* Lines 252-260: case NextState::Complex.
ComplexStep(D, m, maxColumnCount) ==
    LET budget == maxColumnCount - D.count
        sub    == scan_for_text_nonascii(D.st, m, D.tlo, m.hi, budget)
    IN  [D EXCEPT !.nextState = "Trivial",
                  !.count = D.count + sub.count,
                  !.next = sub.next,
                  !.end = sub.end,
                  !.tlo = D.tlo + (sub.end - sub.start),
                  !.st = sub.st,
                  !.subs = Append(D.subs, SubRecord("nonascii", D.tlo, budget, sub))]

\* Line 237: the loop condition.
DriverContinue(D, m, maxColumnCount) ==
    /\ D.exit = "none"
    /\ D.count < maxColumnCount
    /\ D.next # m.hi

RECURSIVE DriverLoop(_, _, _)
DriverLoop(D, m, maxColumnCount) ==
    IF DriverContinue(D, m, maxColumnCount)
    THEN DriverLoop(IF D.nextState = "Trivial"
                    THEN TrivialStep(D, m, maxColumnCount)
                    ELSE ComplexStep(D, m, maxColumnCount),
                    m, maxColumnCount)
    ELSE IF D.exit = "none" THEN [D EXCEPT !.exit = "loop"] ELSE D

\* Lines 225-234: the initial result, and the resumption of a pending
\* sequence, which rebases the working span at the sub-result's end.
DriverEntry(st, m, maxColumnCount) ==
    LET D0 == [count |-> 0, next |-> m.lo, start |-> m.lo, end |-> m.lo,
               tlo |-> m.lo, nextState |-> "Trivial", st |-> st,
               subs |-> <<>>, frontAt |-> m.lo, exit |-> "none"]
    IN  IF st.utf8.expectedLength # 0
        THEN LET r == scan_for_text_nonascii(st, m, m.lo, m.hi, maxColumnCount)
             IN  [D0 EXCEPT !.count = r.count, !.next = r.next,
                            !.start = r.start, !.end = r.end,
                            !.tlo = r.end, !.st = r.st,
                            !.subs = <<SubRecord("nonascii", m.lo, maxColumnCount, r)>>]
        ELSE D0

\* Line 236: the first byte of the working span picks the first step.
FirstState(D, m) ==
    [D EXCEPT !.frontAt = D.tlo,
              !.nextState = IF is_complex(Mem(m, D.tlo)) THEN "Complex" ELSE "Trivial"]

\* Lines 209-268.
scan_for_text(st, m, maxColumnCount) ==
    DriverLoop(FirstState(DriverEntry(st, m, maxColumnCount), m), m, maxColumnCount)

---------------------------------------------------------------------------
\* The caller: streams, chunks and budgets.

\* 'A', LF, an invalid lead byte, U+00E9 (width 1), U+0301 (combining,
\* width 0), U+4E2D (width 2), U+FE0F (VS16).
Units ==
    { <<65>>, <<10>>, <<255>>, <<195, 169>>, <<204, 129>>,
      <<228, 184, 173>>, <<239, 184, 143>> }

RECURSIVE Flatten(_)
Flatten(us) == IF us = <<>> THEN <<>> ELSE Head(us) \o Flatten(Tail(us))

Streams == {Flatten(us) : us \in UNION {[1..n -> Units] : n \in 1..MaxUnits}}

\* Bytes found in memory outside the caller's buffer.
Garbage == {65, 255}

\* The calls so far have used this much of the total budget.
Spent == IF calls = <<>> THEN 0 ELSE calls[1].max

\* Where the next call starts: at the first byte, then at the last result's
\* next.
Position == IF calls = <<>> THEN 0 ELSE calls[Len(calls)].r.next

Init ==
    /\ text \in Streams
    /\ state = CleanState
    /\ calls = <<>>

\* One call of scan_for_text on the chunk [lo, hi) of the buffer.
Call(lo, hi, maxColumnCount, contig, g) ==
    LET m == [buf |-> text, lo |-> lo, hi |-> hi, contig |-> contig, g |-> g]
        D == scan_for_text(state, m, maxColumnCount)
    IN  /\ state' = D.st
        /\ calls' = Append(calls, [lo |-> lo, hi |-> hi, max |-> maxColumnCount,
                                   pre |-> state, contig |-> contig, r |-> D])
        /\ UNCHANGED text

\* The first call on a stream: a fresh scan state and the non-empty chunk
\* [0, hi).  Nothing is pending, so the call reads nothing outside the chunk.
Scan(hi, maxColumnCount) ==
    /\ calls = <<>>
    /\ 0 < hi /\ hi <= Len(text)
    /\ Call(0, hi, maxColumnCount, TRUE, 65)

\* The second call, with the same scan state, on a non-empty chunk that
\* starts at the first result's next, with what is left of the budget or
\* less.  What lies around the chunk in memory matters only when a
\* sequence is pending.
Resume(hi, maxColumnCount, contig, g) ==
    /\ Len(calls) = 1
    /\ 0 <= Position /\ Position < hi /\ hi <= Len(text)
    /\ Spent + maxColumnCount <= MaxColumns
    /\ (state.utf8.expectedLength = 0) => (contig /\ g = 65)
    /\ Call(Position, hi, maxColumnCount, contig, g)

Next ==
    \/ \E hi \in 1..Len(text), maxColumnCount \in 0..MaxColumns :
          Scan(hi, maxColumnCount)
    \/ \E hi \in 1..Len(text), maxColumnCount \in 0..MaxColumns,
          contig \in BOOLEAN, g \in Garbage :
          Resume(hi, maxColumnCount, contig, g)

Spec == Init /\ [][Next]_vars

\* The stream is scanned whole: each call gets all that is left of it.
WholeNext ==
    \/ \E maxColumnCount \in 0..MaxColumns :
          Scan(Len(text), maxColumnCount)
    \/ \E maxColumnCount \in 0..MaxColumns, contig \in BOOLEAN, g \in Garbage :
          Resume(Len(text), maxColumnCount, contig, g)

WholeSpec == Init /\ [][WholeNext]_vars

\* The stream arrives in chunks: a first chunk of any length, then the next
\* byte alone.
ChunkNext ==
    \/ \E hi \in 1..Len(text), maxColumnCount \in 0..MaxColumns :
          Scan(hi, maxColumnCount)
    \/ \E maxColumnCount \in 0..MaxColumns, contig \in BOOLEAN, g \in Garbage :
          Resume(Position + 1, maxColumnCount, contig, g)

ChunkSpec == Init /\ [][ChunkNext]_vars

\* The stream arrives in two chunks: a first chunk of any length, then all
\* that is left from the first result's next on.
RestNext ==
    \/ \E hi \in 1..Len(text), maxColumnCount \in 0..MaxColumns :
          Scan(hi, maxColumnCount)
    \/ \E maxColumnCount \in 0..MaxColumns, contig \in BOOLEAN, g \in Garbage :
          Resume(Len(text), maxColumnCount, contig, g)

RestSpec == Init /\ [][RestNext]_vars

\* Streams of joined pictographs: U+2764 (width 1), U+200D ZERO WIDTH JOINER,
\* U+1F525 (width 2), U+0301 and an invalid lead byte.
JoinUnits ==
    { <<226, 157, 164>>, <<226, 128, 141>>, <<240, 159, 148, 165>>,
      <<204, 129>>, <<255>> }

JoinStreams == {Flatten(us) : us \in UNION {[1..n -> JoinUnits] : n \in 1..MaxUnits}}

JoinInit ==
    /\ text \in JoinStreams
    /\ state = CleanState
    /\ calls = <<>>

JoinSpec == JoinInit /\ [][WholeNext]_vars

\* The whole buffer as one chunk.
Whole == [buf |-> text, lo |-> 0, hi |-> Len(text), contig |-> TRUE, g |-> 65]

\* The ASCII fast path on its own: spans long enough for the batched loop.
\* A span is printable up to one byte of interest (a value at an edge of
\* the printable range), and after it either printable or not.
EdgeBytes == {31, 32, 127, 128}

AsciiText(n, p, edge, rest) ==
    [k \in 1..n |-> IF k <= p THEN 65 ELSE IF k = p + 1 THEN edge ELSE rest]

AsciiTexts ==
    {AsciiText(n, p, edge, rest) :
        n \in 0..MaxAsciiLen, p \in 0..MaxAsciiLen, edge \in EdgeBytes, rest \in Garbage}

AsciiInit ==
    /\ text \in AsciiTexts
    /\ state = CleanState
    /\ calls = <<>>

\* One call of detail::scan_for_text_ascii on the whole buffer.
AsciiScan(maxColumnCount) ==
    /\ calls = <<>>
    /\ calls' = <<[lo |-> 0, hi |-> Len(text), max |-> maxColumnCount,
                   count |-> scan_for_text_ascii(Whole, 0, Len(text), maxColumnCount)]>>
    /\ UNCHANGED <<text, state>>

AsciiNext == \E maxColumnCount \in 0..(MaxAsciiLen + 1) : AsciiScan(maxColumnCount)

AsciiSpec == AsciiInit /\ [][AsciiNext]_vars

\* Both sub-scanners on their own, each on the whole buffer with a clean scan
\* state and the same budget.
PairScan(maxColumnCount) ==
    /\ calls = <<>>
    /\ calls' = <<[lo |-> 0, hi |-> Len(text), max |-> maxColumnCount,
                   ascii |-> scan_for_text_ascii(Whole, 0, Len(text), maxColumnCount),
                   nonascii |-> scan_for_text_nonascii(CleanState, Whole, 0, Len(text),
                                                       maxColumnCount)]>>
    /\ UNCHANGED <<text, state>>

PairNext == \E maxColumnCount \in 0..(MaxAsciiLen + 1) : PairScan(maxColumnCount)

PairSpec == AsciiInit /\ [][PairNext]_vars

---------------------------------------------------------------------------
\* Claims.

Called == calls # <<>>

\* The nonascii sub-scanner calls of call c.
NonAsciiSubs(c) == {i \in 1..Len(c.r.subs) : c.r.subs[i].kind = "nonascii"}

\* C1: the count a call of scan_for_text returns, and the count each call of
\* scan_for_text_nonascii inside it returns, is at most the budget it was given.
C1_BudgetRespected ==
    \A i \in 1..Len(calls) :
        /\ calls[i].r.count <= calls[i].max
        /\ \A j \in NonAsciiSubs(calls[i]) :
              calls[i].r.subs[j].count <= calls[i].r.subs[j].max

\* C2: at every exit of scan_for_text, and at the exit of every
\* scan_for_text_nonascii call inside it, start <= end and end <= next.
C2_Ordered ==
    \A i \in 1..Len(calls) :
        /\ calls[i].r.start <= calls[i].r.end
        /\ calls[i].r.end <= calls[i].r.next
        /\ \A j \in NonAsciiSubs(calls[i]) :
              /\ calls[i].r.subs[j].start <= calls[i].r.subs[j].end
              /\ calls[i].r.subs[j].end <= calls[i].r.subs[j].next

\* C4: when a call of scan_for_text leaves no sequence pending, next = end.
C4_NextIsEnd ==
    \A i \in 1..Len(calls) :
        (calls[i].r.st.utf8.expectedLength = 0) => (calls[i].r.next = calls[i].r.end)

\* The codepoint that starts at offset s of the buffer and lies before hi:
\* [ok, cp, len], ok only when one whole well-formed codepoint is there.
RECURSIVE DecodeFrom(_, _, _, _)
DecodeFrom(u, i, hi, n) ==
    IF i >= hi \/ i < 0
    THEN [ok |-> FALSE, cp |-> 0, len |-> 0]
    ELSE LET r == from_utf8(u, text[i + 1])
         IN  IF r.kind = "Success" THEN [ok |-> TRUE, cp |-> r.value, len |-> n + 1]
             ELSE IF r.kind = "Invalid" THEN [ok |-> FALSE, cp |-> 0, len |-> 0]
             ELSE DecodeFrom(r.st, i + 1, hi, n + 1)

DecodeAt(s, hi) == DecodeFrom(CleanUtf8, s, hi, 0)

\* The end offset e of a call on [lo, hi) splits no codepoint of the span
\* and no grapheme cluster of the span.
OnClusterBoundary(lo, hi, e) ==
    /\ \A s \in lo..(e - 1) :
          LET d == DecodeAt(s, hi) IN ~(d.ok /\ s + d.len > e)
    /\ \A s \in lo..(e - 1) :
          LET before == DecodeAt(s, e)
              at     == DecodeAt(e, hi)
          IN  (before.ok /\ s + before.len = e /\ at.ok)
                  => breakable(before.cp, at.cp)

\* C3: the end a call of scan_for_text returns is never strictly inside a
\* codepoint of the span, and when a codepoint of the span ends at end and
\* another begins there, the boundary predicate reports a boundary between them.
C3_ClusterAtomicity ==
    \A i \in 1..Len(calls) :
        OnClusterBoundary(calls[i].lo, calls[i].hi, calls[i].r.end)

\* The bytes of the buffer from offset lo on are all printable ASCII.
AsciiFrom(lo) == \A k \in (lo + 1)..Len(text) : is_ascii(text[k])

\* C7: with a clean scan state, on a span made of one invalid lead byte
\* followed by printable ASCII text, and a budget that holds all of it, the
\* call counts one column for the invalid byte and one for each ASCII byte.
C7_ResyncAfterInvalid ==
    (/\ Called
     /\ calls[1].hi = Len(text)
     /\ Len(text) >= 2
     /\ from_utf8(CleanUtf8, text[1]).kind = "Invalid"
     /\ AsciiFrom(1)
     /\ calls[1].max >= Len(text))
        => calls[1].r.count = Len(text)

\* Two successive calls, each on all that is left of the stream.
SplitScan ==
    /\ Len(calls) = 2
    /\ calls[1].hi = Len(text)
    /\ calls[2].hi = Len(text)
    /\ calls[2].max >= 1

\* C5: one call with budget B1 + B2, and two calls with budgets B1 and B2
\* that share the scan state, yield the same total count and the same final
\* end and next.
C5_IdempotentResume ==
    SplitScan =>
        LET one == scan_for_text(CleanState, Whole, calls[1].max + calls[2].max)
        IN  /\ calls[1].r.count + calls[2].r.count = one.count
            /\ calls[2].r.end = one.end
            /\ calls[2].r.next = one.next

\* The buffer is a codepoint of display width 1 followed by U+FE0F.
BaseThenVS16 ==
    LET base == DecodeAt(0, Len(text))
    IN  /\ base.ok
        /\ width(base.cp) = 1
        /\ LET vs == DecodeAt(base.len, Len(text))
           IN  vs.ok /\ vs.cp = VS16 /\ base.len + vs.len = Len(text)

\* C8: with a clean scan state, on a width-1 codepoint followed by U+FE0F,
\* budget 2 gives count 2 with end = next = end of span, and budget 1 gives
\* count 0 with next at the first byte.
C8_VS16Widening ==
    (Called /\ calls[1].hi = Len(text) /\ BaseThenVS16) =>
        /\ (calls[1].max = 2) =>
              /\ calls[1].r.count = 2
              /\ calls[1].r.end = Len(text)
              /\ calls[1].r.next = Len(text)
        /\ (calls[1].max = 1) =>
              /\ calls[1].r.count = 0
              /\ calls[1].r.next = 0


\* The widest-cluster rule of the scanner applied to the codepoints of the
\* first grapheme cluster of the buffer, from offset s with width w so far:
\* [w, end], the cluster's display width and the offset just past it.
RECURSIVE ClusterFrom(_, _, _)
ClusterFrom(prev, s, w) ==
    LET d == DecodeAt(s, Len(text))
    IN  IF ~d.ok \/ breakable(prev, d.cp)
        THEN [w |-> w, end |-> s]
        ELSE ClusterFrom(d.cp, s + d.len, IF d.cp = VS16 THEN 2 ELSE Max(w, width(d.cp)))

\* The buffer begins with a grapheme cluster of display width 2.
BeginsWithWideCluster ==
    LET d == DecodeAt(0, Len(text))
    IN  d.ok /\ ClusterFrom(d.cp, d.len, width(d.cp)).w = 2

\* C9: with a clean scan state and budget 1, on a span that begins with a
\* grapheme cluster of display width 2, count = 0 and next = end = first byte.
C9_WideClusterOverflow ==
    (Called /\ calls[1].hi = Len(text) /\ calls[1].max = 1 /\ BeginsWithWideCluster) =>
        /\ calls[1].r.count = 0
        /\ calls[1].r.next = 0
        /\ calls[1].r.end = 0

\* The first chunk is the first two bytes of a three-byte sequence and the
\* first call had a budget of at least one column.
TwoOfThree ==
    /\ Called
    /\ calls[1].hi = 2
    /\ calls[1].max >= 1
    /\ Len(text) >= 3
    /\ text[1] \div 16 = 14
    /\ DecodeAt(0, 3).ok

\* C10: the first call on the first two bytes of a three-byte sequence
\* returns count 0, next past the two bytes and a pending decode state; the
\* second call, on the third byte with a budget that holds the codepoint,
\* returns its display width and leaves nothing pending.
C10_ChunkedSequence ==
    TwoOfThree =>
        /\ calls[1].r.count = 0
        /\ calls[1].r.next = 2
        /\ calls[1].r.st.utf8.expectedLength # 0
        /\ (Len(calls) = 2 /\ calls[2].hi = 3
               /\ calls[2].max >= width(DecodeAt(0, 3).cp)) =>
              /\ calls[2].r.count = width(DecodeAt(0, 3).cp)
              /\ calls[2].r.st.utf8.expectedLength = 0
              /\ calls[2].r.st.lastCodepointHint = DecodeAt(0, 3).cp

C10_Witness ==
    /\ TwoOfThree
    /\ Len(calls) = 2
    /\ calls[2].hi = 3
    /\ calls[2].r.count = 2


\* A byte b with 0x20 <= b <= 0x7F.
Plain(b) == 32 <= b /\ b <= 127

PureAscii == \A k \in 1..Len(text) : 32 <= text[k] /\ text[k] <= 126

\* C11: on a span of printable ASCII bytes only, scan_for_text_ascii and
\* scan_for_text_nonascii (clean scan state) return the same count and
\* consume the same number of bytes.
C11_Agreement ==
    (Called /\ PureAscii) =>
        /\ calls[1].nonascii.count = calls[1].ascii
        /\ calls[1].nonascii.next - calls[1].lo = calls[1].ascii

\* C11 as amended: on such a span scan_for_text_ascii returns min(span length,
\* budget), while scan_for_text_nonascii stops at the first byte: count 0,
\* no byte consumed (start = end = next = first byte), scan state untouched.
C11_ComplexYieldsToAscii ==
    (Called /\ PureAscii) =>
        /\ calls[1].ascii = Min(Len(text), calls[1].max)
        /\ calls[1].nonascii.count = 0
        /\ calls[1].nonascii.start = calls[1].lo
        /\ calls[1].nonascii.end = calls[1].lo
        /\ calls[1].nonascii.next = calls[1].lo
        /\ calls[1].nonascii.st = CleanState

C11_Witness ==
    /\ Called
    /\ PureAscii
    /\ calls[1].ascii > BatchWidth
    /\ calls[1].nonascii.count = 0

\* The decoder outcomes of all scan_for_text_nonascii calls made so far:
\* <<i, j, k>> is outcome k of sub-scanner call j of call i.
Outcomes ==
    {o \in UNION {UNION {{<<i, j, k>> : k \in 1..Len(calls[i].r.subs[j].log)} :
                             j \in NonAsciiSubs(calls[i])} : i \in 1..Len(calls)} : TRUE}

Sub(o) == calls[o[1]].r.subs[o[2]]

Outcome(o) == Sub(o).log[o[3]]

\* The outcome is a decoded codepoint that the boundary predicate puts at the
\* start of a new cluster.
StartsCluster(e) == e.kind = "Success" /\ breakable(e.prev, e.cp)

\* C12: a decoded codepoint that starts a new cluster is rejected exactly
\* when the running total (the flushed cluster included) plus its own display
\* width exceeds the budget, and when accepted the new cluster's width is its
\* own display width, whatever the width of the cluster just flushed.
C12_NewClusterWidth ==
    \A o \in Outcomes :
        LET e == Outcome(o)
        IN  StartsCluster(e) =>
               /\ e.countAfter = e.countBefore + e.widthBefore
               /\ e.brk <=> (e.countAfter + width(e.cp) > Sub(o).max)
               /\ ~e.brk => e.widthAfter = width(e.cp)

\* The outcome is a decoded codepoint that the boundary predicate joins to
\* the current cluster.
ContinuesCluster(e) == e.kind = "Success" /\ ~breakable(e.prev, e.cp)

\* C13: when a decoded codepoint other than U+FE0F continues the current
\* cluster, the cluster's width becomes the larger of its width so far and
\* the codepoint's display width.
C13_WidestConstituent ==
    \A o \in Outcomes :
        LET e == Outcome(o)
        IN  (ContinuesCluster(e) /\ e.cp # VS16) =>
               e.widthAfter = Max(e.widthBefore, width(e.cp))

\* What a call whose decoder outcomes are log[k..] owes to count, with w the
\* width of the accepted cluster still pending: every accepted cluster once,
\* with the width the scanner gave it, one column for every Invalid outcome,
\* and nothing for a cluster rejected by a rewind.
RECURSIVE Owed(_, _, _)
Owed(log, k, w) ==
    IF k > Len(log) THEN w
    ELSE LET e == log[k]
         IN  IF e.kind = "Invalid" THEN w + 1 + Owed(log, k + 1, 0)
             ELSE IF StartsCluster(e)
             THEN w + Owed(log, k + 1, IF e.brk THEN 0 ELSE e.widthAfter)
             ELSE Owed(log, k + 1, IF e.brk THEN 0 ELSE e.widthAfter)

\* The outcome is U+FE0F joined to a cluster that the widening to two
\* columns pushes over the budget.
VS16Overflow(e) == ContinuesCluster(e) /\ e.cp = VS16 /\ e.brk

\* C14: the count of every scan_for_text_nonascii call is the sum of the
\* widths of the clusters it accepted, each once, plus one per Invalid byte (a
\* pending accepted cluster keeps its width when the next byte is Invalid),
\* and the cluster a U+FE0F overflow rejects lies outside [start, end).
C14_CountedOnce ==
    \A i \in 1..Len(calls) : \A j \in NonAsciiSubs(calls[i]) :
        LET sub == calls[i].r.subs[j]
        IN  /\ sub.count = Owed(sub.log, 1, 0)
            /\ \A k \in 1..Len(sub.log) :
                  VS16Overflow(sub.log[k]) => sub.end <= sub.log[k].clusterStart

\* C15: when a codepoint that starts a new cluster does not fit, the call of
\* scan_for_text_nonascii returns next at the first byte of that codepoint
\* and a range that ends at or before it.
C15_RejectRewind ==
    \A o \in Outcomes :
        LET e == Outcome(o)
        IN  (StartsCluster(e) /\ e.brk) =>
               /\ Sub(o).next = e.at - e.len
               /\ Sub(o).end <= Sub(o).next

\* The outcomes before outcome k of log that started a cluster.
HeadsBefore(log, k) == {h \in 1..(k - 1) : StartsCluster(log[h])}

\* The outcome that started the cluster outcome k of log belongs to.
ClusterHead(log, k) == CHOOSE h \in HeadsBefore(log, k) : \A g \in HeadsBefore(log, k) : g <= h

\* C16: when U+FE0F joins a cluster begun in this call of
\* scan_for_text_nonascii and the widening to two columns does not fit, the
\* call returns next at the first byte of the first codepoint of that cluster,
\* wherever the cluster sits in the span, and a range that ends at or before it.
C16_VS16Rewind ==
    \A o \in Outcomes :
        LET e   == Outcome(o)
            log == Sub(o).log
        IN  (VS16Overflow(e) /\ HeadsBefore(log, o[3]) # {}) =>
               LET head == log[ClusterHead(log, o[3])]
               IN  /\ Sub(o).next = head.at - head.len
                   /\ Sub(o).end <= Sub(o).next

\* The decoder outcomes of the sub-scanner calls subs[j..], oldest first.
RECURSIVE SubLogs(_, _)
SubLogs(subs, j) ==
    IF j > Len(subs) THEN <<>>
    ELSE (IF subs[j].kind = "nonascii" THEN subs[j].log ELSE <<>>) \o SubLogs(subs, j + 1)

\* The decoder outcomes of the calls i.. made on the stream, oldest first.
RECURSIVE StreamLog(_)
StreamLog(i) ==
    IF i > Len(calls) THEN <<>> ELSE SubLogs(calls[i].r.subs, 1) \o StreamLog(i + 1)

\* C17: an Invalid outcome adds exactly one to the running count and resets
\* the last-codepoint hint and the byte count to 0, and the codepoint decoded
\* next on the stream, in this call or a later one, starts a new cluster.
C17_InvalidResets ==
    LET log == StreamLog(1)
    IN  \A k \in 1..Len(log) :
           (log[k].kind = "Invalid") =>
              /\ log[k].countAfter = log[k].countBefore + 1
              /\ log[k].hintAfter = 0
              /\ log[k].byteCountAfter = 0
              /\ (k < Len(log) /\ log[k + 1].kind = "Success") =>
                    /\ log[k + 1].prev = 0
                    /\ StartsCluster(log[k + 1])

\* A codepoint, an invalid byte, then a combining mark: the mark was decoded
\* and began a cluster of its own.
C17_Witness ==
    LET log == StreamLog(1)
    IN  /\ Len(log) >= 3
        /\ log[1].kind = "Success" /\ log[1].cp # 0
        /\ log[2].kind = "Invalid"
        /\ log[3].kind = "Success" /\ IsExtend(log[3].cp)
        /\ ~log[3].brk

\* The sub-scanner calls the loop of call c made: all of c.r.subs but the
\* resumption of a pending sequence before the loop.
LoopSubs(c) ==
    {j \in 1..Len(c.r.subs) : ~(j = 1 /\ c.pre.utf8.expectedLength # 0)}

\* C18: every call of scan_for_text returns; a Trivial step with zero progress
\* is the last step and any other strictly shrinks the working span; a Complex
\* step is followed by a Trivial step; a scan_for_text_nonascii call leaves
\* next inside its span; and the loop runs at most twice per byte of the span
\* and per column of the budget, plus once.
C18_Terminates ==
    \A i \in 1..Len(calls) :
        LET c    == calls[i]
            subs == c.r.subs
        IN  /\ c.r.exit \in {"early", "loop"}
            /\ \A j \in 1..Len(subs) :
                  /\ (subs[j].kind = "ascii" /\ subs[j].count = 0) =>
                        (j = Len(subs) /\ c.r.exit = "early")
                  /\ (subs[j].kind = "ascii" /\ subs[j].count > 0 /\ j < Len(subs)) =>
                        (subs[j + 1].kind = "nonascii" /\ subs[j + 1].at > subs[j].at)
                  /\ (subs[j].kind = "nonascii" /\ j \in LoopSubs(c) /\ j < Len(subs)) =>
                        (subs[j + 1].kind = "ascii" /\ subs[j + 1].at >= subs[j].at)
                  /\ (subs[j].kind = "nonascii") =>
                        (subs[j].at <= subs[j].next /\ subs[j].next <= c.hi)
            /\ Cardinality(LoopSubs(c)) <= 2 * (c.hi - c.lo) + 1
            /\ Cardinality(LoopSubs(c)) <= 2 * c.max + 1

\* A call that resumed a pending sequence and then took a Trivial step and a
\* Complex step that both made progress.
C18_Witness ==
    /\ Len(calls) = 2
    /\ calls[2].pre.utf8.expectedLength # 0
    /\ \E j \in LoopSubs(calls[2]) :
          /\ j < Len(calls[2].r.subs)
          /\ calls[2].r.subs[j].kind = "ascii"
          /\ calls[2].r.subs[j].count > 0
          /\ calls[2].r.subs[j + 1].count > 0

\* C19: in every call of scan_for_text on a non-empty span [lo, hi), the
\* returned start, end and next lie in lo..hi, the byte line 236 classifies
\* is a byte of the span, and every sub-scanner call is given a working span
\* inside [lo, hi), so that all it reads is inside the span.
C19_InsideSpan ==
    \A i \in 1..Len(calls) :
        LET c == calls[i]
        IN  /\ c.lo <= c.r.start /\ c.r.start <= c.hi
            /\ c.lo <= c.r.end /\ c.r.end <= c.hi
            /\ c.lo <= c.r.next /\ c.r.next <= c.hi
            /\ c.lo <= c.r.frontAt /\ c.r.frontAt < c.hi
            /\ \A j \in 1..Len(c.r.subs) :
                  c.lo <= c.r.subs[j].at /\ c.r.subs[j].at <= c.hi

\* The offsets before p where a well-formed codepoint of the stream that
\* ends at p begins.
EndingAt(p) == {q \in 0..(p - 1) : DecodeAt(q, p).ok /\ q + DecodeAt(q, p).len = p}

\* The codepoint that immediately precedes offset p in the stream: none (0)
\* at the start of the stream and after a byte that is not part of a
\* well-formed codepoint.
Preceding(p) ==
    IF EndingAt(p) = {} THEN 0 ELSE DecodeAt(CHOOSE q \in EndingAt(p) : TRUE, p).cp

\* C20: whenever scan_for_text_nonascii has decoded a codepoint, the previous
\* operand it hands to the boundary predicate (state.lastCodepointHint) is the
\* codepoint that immediately precedes it in the stream, or none at the start
\* of the stream and right after an Invalid outcome.
C20_HintIsPredecessor ==
    \A o \in Outcomes :
        LET e == Outcome(o)
        IN  (e.kind = "Success" /\ calls[o[1]].contig) =>
               e.prev = Preceding(e.at - e.len)

===========================================================================
